---- MODULE Spec2Model ----
(***************************************************************************)
(* Model of count_methylation_percent.py: one run of main() over one      *)
(* region argument and one bedMethyl file.                                 *)
(*                                                                         *)
(* Text is a sequence of one-character strings.  Numbers that the program  *)
(* rounds to two decimals are kept in hundredths (7000 stands for 70.0).   *)
(***************************************************************************)
EXTENDS Integers, Sequences, FiniteSets, TLC

VARIABLES
    args,       \* argparse namespace: region, input, verbose, simple
    region,     \* what parse_region returned (chrom, start, end) or not yet
    df,         \* the DataFrame read_bedmethyl returned, or not yet
    results,    \* the dict calculate_region_methylation returned, or not yet
    stdout,     \* lines printed on standard output, in order
    stderr,     \* lines printed on standard error, in order
    exit_code,  \* process exit status once main has ended
    opened,     \* number of times the input file has been opened
    pc          \* position in main()

vars == <<args, region, df, results, stdout, stderr, exit_code, opened, pc>>

(***************************************************************************)
(* Bounds of the checked input sets.                                       *)
(***************************************************************************)
MaxRegionLen == 6   \* longest region argument, in characters
MaxLines == 3       \* most lines of an input file (sniffing runs)
MaxRows == 2        \* most data rows of an input file (aggregation runs)

(***************************************************************************)
(* Text helpers: Python's str.split, int() and str() on the characters     *)
(* the checked arguments are made of.                                      *)
(***************************************************************************)
Digits == <<"0", "1", "2", "3", "4", "5", "6", "7", "8", "9">>

IsDigit(ch) == \E i \in 1..10 : Digits[i] = ch

DigitVal(ch) == (CHOOSE i \in 1..10 : Digits[i] = ch) - 1

RECURSIVE Split(_, _)
\* str.split(sep): the pieces between every occurrence of sep
Split(s, sep) ==
    IF \A i \in 1..Len(s) : s[i] # sep
    THEN <<s>>
    ELSE LET k == CHOOSE i \in 1..Len(s) :
                      s[i] = sep /\ \A j \in 1..(i - 1) : s[j] # sep
         IN <<SubSeq(s, 1, k - 1)>> \o Split(SubSeq(s, k + 1, Len(s)), sep)

RECURSIVE DigitsVal(_)
DigitsVal(t) ==
    IF t = <<>> THEN 0
    ELSE 10 * DigitsVal(SubSeq(t, 1, Len(t) - 1)) + DigitVal(t[Len(t)])

\* the text after an optional sign
Unsigned(t) == IF t # <<>> /\ t[1] \in {"+", "-"} THEN Tail(t) ELSE t

\* int(t) succeeds: an optional sign, then one or more decimal digits
IsInt(t) ==
    /\ Unsigned(t) # <<>>
    /\ \A i \in 1..Len(Unsigned(t)) : IsDigit(Unsigned(t)[i])

\* int(t) for a text that IsInt
IntOf(t) ==
    IF t[1] = "-" THEN 0 - DigitsVal(Unsigned(t)) ELSE DigitsVal(Unsigned(t))

RECURSIVE NatStr(_)
NatStr(n) ==
    IF n < 10 THEN <<Digits[n + 1]>>
    ELSE NatStr(n \div 10) \o <<Digits[(n % 10) + 1]>>

\* str(n) of an int: no leading zeros, a minus sign when negative
Str(n) == IF n < 0 THEN <<"-">> \o NatStr(0 - n) ELSE NatStr(n)

(***************************************************************************)
(* parse_region                                                            *)
(***************************************************************************)
None == [none |-> TRUE]

\* a raised exception, as the text main prints for it
Raise(fmt, arg) == [ok |-> FALSE, fmt |-> fmt, arg |-> arg]

\* the f-string '{chrom}:{start+1}-{end}'
RegionLabel(chrom, start, end) ==
    chrom \o <<":">> \o Str(start + 1) \o <<"-">> \o Str(end)

\* mutation: the 1-based start is kept as it is
parse_region_keep_start(region_str) ==
    LET parts == Split(region_str, ":") IN
    IF Len(parts) = 2 /\ Len(Split(parts[2], "-")) = 2
       /\ IsInt(Split(parts[2], "-")[1]) /\ IsInt(Split(parts[2], "-")[2])
    THEN [ok |-> TRUE, chrom |-> parts[1],
          start |-> IntOf(Split(parts[2], "-")[1]),
          end |-> IntOf(Split(parts[2], "-")[2])]
    ELSE Raise("Invalid region format: {}. Use 'chr:start-end'", region_str)

\* mutation: only the first two dash-separated pieces are looked at
parse_region_lenient(region_str) ==
    LET parts == Split(region_str, ":") IN
    IF Len(parts) = 2 /\ Len(Split(parts[2], "-")) >= 2
       /\ IsInt(Split(parts[2], "-")[1]) /\ IsInt(Split(parts[2], "-")[2])
    THEN [ok |-> TRUE, chrom |-> parts[1],
          start |-> IntOf(Split(parts[2], "-")[1]) - 1,
          end |-> IntOf(Split(parts[2], "-")[2])]
    ELSE Raise("Invalid region format: {}. Use 'chr:start-end'", region_str)

parse_region(region_str) ==
    LET parts == Split(region_str, ":") IN
    IF Len(parts) # 2
    THEN \* chrom, coords = ... cannot unpack
         Raise("Invalid region format: {}. Use 'chr:start-end'", region_str)
    ELSE LET chrom == parts[1]
             coords == Split(parts[2], "-")
         IN IF Len(coords) # 2
            THEN \* start, end = ... cannot unpack
                 Raise("Invalid region format: {}. Use 'chr:start-end'", region_str)
            ELSE IF ~IsInt(coords[1]) \/ ~IsInt(coords[2])
            THEN \* int() raised
                 Raise("Invalid region format: {}. Use 'chr:start-end'", region_str)
            ELSE [ok |-> TRUE, chrom |-> chrom,
                  start |-> IntOf(coords[1]) - 1, end |-> IntOf(coords[2])]

(***************************************************************************)
(* The input file.  A field of a line is a token: what kind of text it is *)
(* and its value.  "int" is integer text, "num" decimal text such as       *)
(* 50.00 (n holds the number), "str" any other text, "nan" text that       *)
(* pandas reads as a missing value (also a field the line does not have).  *)
(***************************************************************************)
SVal(s) == [t |-> "str", s |-> s, n |-> 0]
IVal(n) == [t |-> "int", s |-> <<>>, n |-> n]
FVal(n) == [t |-> "num", s |-> <<>>, n |-> n]
NA == [t |-> "nan", s |-> <<>>, n |-> 0]

Min(a, b) == IF a < b THEN a ELSE b
Max(a, b) == IF a > b THEN a ELSE b

\* the 18 tab-separated fields of a bedMethyl line, cut to its first w fields
DataLine(chrom, start, end, mod_type, strand, coverage, pct, nmod, ncan, nother, w) ==
    [kind |-> "data",
     fields |-> SubSeq(<<SVal(chrom), IVal(start), IVal(end), SVal(<<mod_type>>),
                         IVal(coverage), SVal(<<strand>>), IVal(start), IVal(end),
                         SVal(<<"2", "5", "5", ",", "0", ",", "0">>), IVal(coverage),
                         pct, IVal(nmod), IVal(ncan), IVal(nother),
                         IVal(0), IVal(0), IVal(0), IVal(0)>>, 1, w)]

\* a line that starts with '#' and holds nf tab-separated pieces
CommentLine(nf) == [kind |-> "comment", fields |-> [i \in 1..nf |-> SVal(<<"#">>)]]

BlankLine == [kind |-> "blank", fields |-> <<>>]

(***************************************************************************)
(* read_bedmethyl                                                          *)
(***************************************************************************)
base_columns == <<"chrom", "start", "end", "mod_type", "score",
                  "strand", "start_dup", "end_dup", "color", "coverage">>

optional_columns == <<"percent_modified", "n_modified", "n_canonical", "n_other_mod",
                      "n_delete", "n_fail", "n_diff", "n_nocall">>

\* f.readline().strip() of line i: a blank line and the end of file both give ''
ReadLine(lines, i) == IF i <= Len(lines) THEN lines[i] ELSE BlankLine

\* len(first_line.split('\t'))
FieldCount(line) == IF line.kind = "blank" THEN 1 ELSE Len(line.fields)

\* num_columns: the first line, or the second when the first is empty or a comment
Sniff(lines) ==
    LET first_line == ReadLine(lines, 1) IN
    IF first_line.kind = "blank" \/ first_line.kind = "comment"
    THEN FieldCount(ReadLine(lines, 2))
    ELSE FieldCount(first_line)

\* columns_to_use: base_columns after the appends, cut to num_columns
ColumnNames(num_columns) ==
    LET appended == base_columns
                    \o SubSeq(optional_columns, 1, Min(Max(num_columns - 10, 0), 8))
    IN SubSeq(appended, 1, Min(num_columns, Len(appended)))

HasName(names, name) == \E i \in 1..Len(names) : names[i] = name

\* the cell pandas puts in column j of a row: with more fields than names the
\* leading fields become the index; a missing trailing field is NaN
Cell(fields, j, shift) ==
    IF j + shift <= Len(fields) THEN fields[j + shift] ELSE NA

\* the value of a cell once the column's dtype and conversions are applied
Typed(name, cell) ==
    IF name = "percent_modified"
    THEN \* pd.to_numeric(errors='coerce')
         IF cell.t \in {"int", "num"} THEN FVal(cell.n) ELSE NA
    ELSE IF name \in {"n_modified", "n_canonical"}
    THEN \* pd.to_numeric(errors='coerce').fillna(0).astype(int)
         IF cell.t \in {"int", "num"} THEN IVal(cell.n) ELSE IVal(0)
    ELSE cell

IntColumns == {"start", "end", "coverage"}

DataLines(lines) == SelectSeq(lines, LAMBDA l : l.kind = "data")

read_bedmethyl(file) ==
    IF ~file.readable
    THEN Raise("[Errno 2] No such file or directory", <<>>)
    ELSE
    LET names == ColumnNames(Sniff(file.lines))
        data == DataLines(file.lines)
        width == IF data = <<>> THEN Len(names) ELSE Len(data[1].fields)
        shift == Max(width - Len(names), 0)
    IN IF \E i \in 1..Len(data) : Len(data[i].fields) > Len(names) + shift
       THEN Raise("Error tokenizing data. C error: Expected {} fields",
                  Str(Len(names) + shift))
       ELSE IF \E i \in 1..Len(data), j \in 1..Len(names) :
                  /\ names[j] \in IntColumns
                  /\ Cell(data[i].fields, j, shift).t # "int"
       THEN Raise("invalid literal for int() or Integer column has NA values", <<>>)
       ELSE [ok |-> TRUE,
             columns |-> names,
             rows |-> [i \in 1..Len(data) |->
                          [c \in {names[j] : j \in 1..Len(names)} |->
                              Typed(c, Cell(data[i].fields,
                                            CHOOSE j \in 1..Len(names) : names[j] = c,
                                            shift))]]]

(***************************************************************************)
(* calculate_region_methylation                                            *)
(***************************************************************************)
Return(v) == [ok |-> TRUE, value |-> v]

RECURSIVE Sum(_)
Sum(seq) == IF seq = <<>> THEN 0 ELSE Head(seq) + Sum(Tail(seq))

\* a / b rounded to the nearest integer, ties to the even one (b > 0)
RoundHalfEven(a, b) ==
    LET q == a \div b
        r == a % b
    IN IF 2 * r < b THEN q
       ELSE IF 2 * r > b THEN q + 1
       ELSE IF q % 2 = 0 THEN q ELSE q + 1

RECURSIVE Insert(_, _)
Insert(x, sorted) ==
    IF sorted = <<>> THEN <<x>>
    ELSE IF x <= Head(sorted) THEN <<x>> \o sorted
    ELSE <<Head(sorted)>> \o Insert(x, Tail(sorted))

RECURSIVE Sorted(_)
Sorted(seq) == IF seq = <<>> THEN <<>> ELSE Insert(Head(seq), Sorted(Tail(seq)))

\* Series.mean(), in hundredths after round(.., 2)
MeanHundredths(seq) == RoundHalfEven(100 * Sum(seq), Len(seq))

\* Series.median(), in hundredths after round(.., 2)
MedianHundredths(seq) ==
    LET srt == Sorted(seq)
        n == Len(seq)
    IN IF n % 2 = 1 THEN 100 * srt[(n + 1) \div 2]
       ELSE 50 * (srt[n \div 2] + srt[(n \div 2) + 1])

\* a cell of a str column compared with a text
TextEq(cell, text) ==
    \/ cell.t = "str" /\ cell.s = text
    \/ cell.t = "int" /\ Str(cell.n) = text

\* df['mod_type'] == 'm'
Is5mC(row) == TextEq(row["mod_type"], <<"m">>)

\* mutation: a record that overlaps the interval is kept
InRegionOverlap(row, chrom, start, end) ==
    /\ TextEq(row["chrom"], chrom)
    /\ row["end"].n > start
    /\ row["start"].n < end

\* (chrom == chrom) & (start >= start) & (end <= end)
InRegion(row, chrom, start, end) ==
    /\ TextEq(row["chrom"], chrom)
    /\ row["start"].n >= start
    /\ row["end"].n <= end

\* mutation: the percentage is preferred when it is there
StrategyPercentFirst(columns) ==
    IF HasName(columns, "percent_modified") /\ HasName(columns, "coverage")
    THEN "percent"
    ELSE IF HasName(columns, "n_modified") /\ HasName(columns, "n_canonical")
    THEN "direct"
    ELSE "none"

\* mutation: without the direct counts there is no fallback
StrategyNoFallback(columns) ==
    IF HasName(columns, "n_modified") /\ HasName(columns, "n_canonical")
    THEN "direct"
    ELSE "none"

\* the if / elif / else on the columns of df_region
Strategy(columns) ==
    IF HasName(columns, "n_modified") /\ HasName(columns, "n_canonical")
    THEN "direct"
    ELSE IF HasName(columns, "percent_modified") /\ HasName(columns, "coverage")
    THEN "percent"
    ELSE "none"

Column(rows, name) == [i \in 1..Len(rows) |-> rows[i][name]]

\* Series.sum(): missing values are skipped
SumSkipNA(cells) ==
    Sum([i \in 1..Len(SelectSeq(cells, LAMBDA c : c.t # "nan")) |->
            SelectSeq(cells, LAMBDA c : c.t # "nan")[i].n])

\* (percent_modified / 100.0 * coverage).round(); NaN stays NaN
ModifiedCalc(row) ==
    IF row["percent_modified"].t = "nan" THEN NA
    ELSE IVal(RoundHalfEven(row["percent_modified"].n * row["coverage"].n, 100))

\* coverage - n_modified_calc; NaN stays NaN
UnmodifiedCalc(row) ==
    IF ModifiedCalc(row).t = "nan" THEN NA
    ELSE IVal(row["coverage"].n - ModifiedCalc(row).n)

\* mutation: the 0-based start is printed
NoDataStart0(chrom, start, end) ==
    [error |-> [fmt |-> "No 5mC data found in region {}",
                arg |-> chrom \o <<":">> \o Str(start) \o <<"-">> \o Str(end)],
     total_positions |-> 0,
     total_modified_reads |-> 0,
     total_unmodified_reads |-> 0,
     total_reads |-> 0,
     overall_methylation_percent |-> 0]

\* the dict returned when df_region is empty
NoData(chrom, start, end) ==
    [error |-> [fmt |-> "No 5mC data found in region {}",
                arg |-> RegionLabel(chrom, start, end)],
     total_positions |-> 0,
     total_modified_reads |-> 0,
     total_unmodified_reads |-> 0,
     total_reads |-> 0,
     overall_methylation_percent |-> 0]

\* the dict returned when neither strategy has its columns
Insufficient(df_region) ==
    [error |-> [fmt |-> "Insufficient data columns to calculate methylation",
                arg |-> <<>>],
     total_positions |-> Len(df_region),
     total_modified_reads |-> 0,
     total_unmodified_reads |-> 0,
     total_reads |-> 0,
     overall_methylation_percent |-> 0]

\* (total_modified / total_reads) * 100 or 0.0, in hundredths after round(.., 2)
OverallPercent(total_modified, total_reads) ==
    IF total_reads > 0
    THEN RoundHalfEven(10000 * total_modified, total_reads)
    ELSE 0

\* total_modified, total_unmodified, total_reads, total_other_mod of a strategy
Totals(strategy, columns, df_region) ==
    IF strategy = "direct"
    THEN LET total_modified == SumSkipNA(Column(df_region, "n_modified"))
             total_unmodified == SumSkipNA(Column(df_region, "n_canonical"))
         IN [modified |-> total_modified,
             unmodified |-> total_unmodified,
             reads |-> total_modified + total_unmodified,
             other |-> IF HasName(columns, "n_other_mod")
                       THEN SumSkipNA(Column(df_region, "n_other_mod"))
                       ELSE 0]
    ELSE [modified |-> SumSkipNA([i \in 1..Len(df_region) |-> ModifiedCalc(df_region[i])]),
          unmodified |-> SumSkipNA([i \in 1..Len(df_region) |-> UnmodifiedCalc(df_region[i])]),
          reads |-> SumSkipNA(Column(df_region, "coverage")),
          other |-> 0]

calculate_region_methylation(frame, chrom, start, end) ==
    IF ~HasName(frame.columns, "mod_type")
    THEN Raise("'mod_type'", <<>>)      \* KeyError
    ELSE
    LET df_5mc == SelectSeq(frame.rows, Is5mC)
        df_region == SelectSeq(df_5mc, LAMBDA row : InRegion(row, chrom, start, end))
        strategy == Strategy(frame.columns)
    IN IF Len(df_region) = 0
       THEN Return(NoData(chrom, start, end))
       ELSE IF strategy = "none"
       THEN Return(Insufficient(df_region))
       ELSE
       LET tot == Totals(strategy, frame.columns, df_region)
           coverage == IF HasName(frame.columns, "coverage")
                       THEN [i \in 1..Len(df_region) |-> df_region[i]["coverage"].n]
                       ELSE <<>>
           result ==
               [region |-> RegionLabel(chrom, start, end),
                total_positions |-> Len(df_region),
                total_modified_reads |-> tot.modified,
                total_unmodified_reads |-> tot.unmodified,
                total_reads |-> tot.reads,
                overall_methylation_percent |-> OverallPercent(tot.modified, tot.reads),
                mean_coverage_per_position |->
                    IF HasName(frame.columns, "coverage")
                    THEN MeanHundredths(coverage) ELSE 0,
                median_coverage_per_position |->
                    IF HasName(frame.columns, "coverage")
                    THEN MedianHundredths(coverage) ELSE 0,
                positions_plus_strand |->
                    Len(SelectSeq(df_region, LAMBDA row : TextEq(row["strand"], <<"+">>))),
                positions_minus_strand |->
                    Len(SelectSeq(df_region, LAMBDA row : TextEq(row["strand"], <<"-">>)))]
       IN IF tot.other > 0
          THEN Return(result @@ [total_other_modifications |-> tot.other])
          ELSE Return(result)

(***************************************************************************)
(* print_results and main                                                  *)
(***************************************************************************)
\* one print call: the stream section it belongs to, its text, its arguments
Line(kind, text, s, n) == [kind |-> kind, text |-> text, s |-> s, n |-> n]

ErrorLine(msg) == Line("error", "Error: " \o msg.fmt, msg.arg, 0)

bar_length == 40

\* int(x) of a / b: truncation toward zero (b > 0)
TruncDiv(a, b) == IF a >= 0 THEN a \div b ELSE 0 - ((0 - a) \div b)

\* '#' * filled + '.' * (bar_length - filled); a negative count gives ''
Bar(pct) ==
    LET filled == TruncDiv(bar_length * pct, 10000) IN
    [i \in 1..Max(filled, 0) |-> "#"] \o [i \in 1..Max(bar_length - filled, 0) |-> "."]

\* the six lines of the --simple listing
SimpleReport(r) ==
    <<Line("report", "Region: {}", r.region, 0),
      Line("report", "Positions: {}", <<>>, r.total_positions),
      Line("report", "Modified reads: {}", <<>>, r.total_modified_reads),
      Line("report", "Unmodified reads: {}", <<>>, r.total_unmodified_reads),
      Line("report", "Total reads: {}", <<>>, r.total_reads),
      Line("report", "Methylation: {}%", <<>>, r.overall_methylation_percent)>>

\* the lines print_results writes on standard output for a result without error
FullReport(r, verbose) ==
    <<Line("report", "\n====", <<>>, 0),
      Line("report", "Methylation Analysis for Region: {}", r.region, 0),
      Line("report", "====", <<>>, 0),
      Line("report", "\nOverall Statistics:", <<>>, 0),
      Line("report", "Total CpG positions analyzed: {:,}", <<>>, r.total_positions),
      Line("report", "Total reads analyzed: {:,}", <<>>, r.total_reads),
      Line("report", "Mean coverage per position: {:.1f}", <<>>,
           r.mean_coverage_per_position),
      Line("report", "Median coverage per position: {:.1f}", <<>>,
           r.median_coverage_per_position),
      Line("report", "\nMethylation Counts:", <<>>, 0),
      Line("report", "Methylated reads: {:,}", <<>>, r.total_modified_reads),
      Line("report", "Unmethylated reads: {:,}", <<>>, r.total_unmodified_reads)>>
    \o (IF "total_other_modifications" \in DOMAIN r
        THEN <<Line("report", "Other modifications: {:,}", <<>>,
                    r.total_other_modifications)>>
        ELSE <<>>)
    \o <<Line("report", "\nMethylation Percentage:", <<>>, 0),
         Line("report", "Overall methylation: {:.2f}%", <<>>,
              r.overall_methylation_percent),
         Line("report", "Visual: [{}] {:.1f}%", Bar(r.overall_methylation_percent),
              r.overall_methylation_percent)>>
    \o (IF verbose
        THEN <<Line("report", "\nStrand Distribution:", <<>>, 0),
               Line("report", "Plus strand positions: {}", <<>>, r.positions_plus_strand),
               Line("report", "Minus strand positions: {}", <<>>, r.positions_minus_strand)>>
        ELSE <<>>)
    \o <<Line("report", "\n====", <<>>, 0)>>

\* mutation: the header is printed before the error of the result is looked at
print_results_header_first(r, verbose) ==
    IF "error" \in DOMAIN r
    THEN [out |-> <<Line("report", "\n====", <<>>, 0)>>, err |-> <<ErrorLine(r.error)>>]
    ELSE [out |-> FullReport(r, verbose), err |-> <<>>]

\* print_results: what goes to standard output and to standard error
print_results(r, verbose) ==
    IF "error" \in DOMAIN r
    THEN [out |-> <<>>, err |-> <<ErrorLine(r.error)>>]
    ELSE [out |-> FullReport(r, verbose), err |-> <<>>]

\* the branch of main on args.simple
Render(r, simple, verbose) ==
    IF simple
    THEN IF "error" \notin DOMAIN r
         THEN [out |-> SimpleReport(r), err |-> <<>>]
         ELSE [out |-> <<>>, err |-> <<ErrorLine(r.error)>>]
    ELSE print_results(r, verbose)

\* except Exception as e: print the error, sys.exit(1)
Fail(e) ==
    /\ stderr' = Append(stderr, ErrorLine(e))
    /\ exit_code' = 1
    /\ pc' = "done"

\* chrom, start, end = parse_region(args.region); the first verbose line
MainParse ==
    /\ pc = "parse"
    /\ LET r == parse_region(args.region) IN
       IF ~r.ok
       THEN /\ Fail(r)
            /\ UNCHANGED <<args, region, df, results, stdout, opened>>
       ELSE /\ region' = r
            /\ stdout' = IF args.verbose
                         THEN Append(stdout, Line("diag", "Loading bedMethyl file: {}",
                                                  <<>>, 0))
                         ELSE stdout
            /\ pc' = "read"
            /\ UNCHANGED <<args, df, results, stderr, exit_code, opened>>

\* df = read_bedmethyl(args.input); the two verbose lines about it
MainRead ==
    /\ pc = "read"
    /\ opened' = opened + (IF args.input.readable THEN 2 ELSE 1)
    /\ LET r == read_bedmethyl(args.input) IN
       IF ~r.ok
       THEN /\ Fail(r)
            /\ UNCHANGED <<args, region, df, results, stdout>>
       ELSE IF args.verbose /\ ~HasName(r.columns, "mod_type")
       THEN \* df['mod_type'] raises KeyError after the first line is printed
            /\ stdout' = Append(stdout, Line("diag", "Loaded {:,} total positions",
                                             <<>>, Len(r.rows)))
            /\ df' = r
            /\ Fail(Raise("'mod_type'", <<>>))
            /\ UNCHANGED <<args, region, results>>
       ELSE /\ df' = r
            /\ stdout' = IF args.verbose
                         THEN stdout
                              \o <<Line("diag", "Loaded {:,} total positions",
                                        <<>>, Len(r.rows)),
                                   Line("diag", "Found {:,} 5mC positions",
                                        <<>>, Len(SelectSeq(r.rows, Is5mC)))>>
                         ELSE stdout
            /\ pc' = "calc"
            /\ UNCHANGED <<args, region, results, stderr, exit_code>>

\* results = calculate_region_methylation(df, chrom, start, end)
MainCalc ==
    /\ pc = "calc"
    /\ LET r == calculate_region_methylation(df, region.chrom, region.start, region.end) IN
       IF ~r.ok
       THEN /\ Fail(r)
            /\ UNCHANGED <<args, region, df, results, stdout, opened>>
       ELSE /\ results' = r.value
            /\ pc' = "print"
            /\ UNCHANGED <<args, region, df, stdout, stderr, exit_code, opened>>

\* the output of the result; main returns and the process ends with status 0
MainPrint ==
    /\ pc = "print"
    /\ LET r == Render(results, args.simple, args.verbose) IN
       /\ stdout' = stdout \o r.out
       /\ stderr' = stderr \o r.err
    /\ exit_code' = 0
    /\ pc' = "done"
    /\ UNCHANGED <<args, region, df, results, opened>>

Next == MainParse \/ MainRead \/ MainCalc \/ MainPrint

\* the state when main starts on the arguments a
Start(a) ==
    /\ args = a
    /\ region = None
    /\ df = None
    /\ results = None
    /\ stdout = <<>>
    /\ stderr = <<>>
    /\ exit_code = -1
    /\ opened = 0
    /\ pc = "parse"

(***************************************************************************)
(* Input sets and specifications.                                          *)
(***************************************************************************)
\* texts of at most n characters of the set chars
Texts(chars, n) == UNION {[1..k -> chars] : k \in 0..n}

\* sequences of at most n elements of the set S
SeqsUpTo(S, n) == UNION {[1..k -> S] : k \in 0..n}

\* region arguments: a name character, the two separators, a sign, two digits
RegionChars == {"c", ":", "-", "+", "0", "1"}

\* the count columns of a line: strand, coverage, percent_modified, n_modified,
\* n_canonical, n_other_mod.  The percentages are multiples of 25, so that
\* percent / 100.0 * coverage is exact in binary floating point.
Payloads ==
    {<<"+", 10, FVal(50), 8, 2, 0>>,
     <<"-", 10, NA, 6, 4, 1>>,
     <<".", 4, FVal(150), 5, -2, 0>>,
     <<"+", 0, FVal(0), 0, 0, 0>>,
     <<"-", 2, FVal(25), -1, 3, 2>>}

\* chromosome, start, end, mod_type and count columns of the lines, placed around
\* the interval [1, 3) of c: inside it with every payload, elsewhere with a few
PlacedPayloads ==
    {<<"c", 1, 2, "m", pa>> : pa \in Payloads}
    \cup {<<"c", 2, 3, "m", pa>> : pa \in {<<"-", 10, NA, 6, 4, 1>>,
                                          <<"-", 2, FVal(25), -1, 3, 2>>}}
    \cup {<<"d", 1, 2, "m", pa>> : pa \in {<<"-", 10, NA, 6, 4, 1>>,
                                          <<".", 4, FVal(150), 5, -2, 0>>}}
    \cup {<<"c", 1, 2, "h", <<"+", 10, FVal(50), 8, 2, 1>>>>,
          <<"c", 0, 2, "m", <<"+", 10, FVal(50), 8, 2, 1>>>>,
          <<"c", 2, 4, "m", <<"-", 10, FVal(50), 8, 2, 1>>>>,
          <<"c", 3, 4, "m", <<"+", 10, FVal(50), 8, 2, 1>>>>}

\* the data lines of w fields
DataLinesOf(w) ==
    {DataLine(<<p[1]>>, p[2], p[3], p[4],
              p[5][1], p[5][2], p[5][3], p[5][4], p[5][5], p[5][6], w) :
        p \in PlacedPayloads}

\* a two-line file of 13 columns for the runs that vary the region argument
SampleFile ==
    [readable |-> TRUE,
     lines |-> <<DataLine(<<"c">>, 0, 1, "m", "+", 10, FVal(50), 8, 2, 0, 13),
                 DataLine(<<"1">>, 0, 1, "m", "-", 10, FVal(50), 6, 4, 0, 13)>>]

\* runs that vary the region argument
InitRegion ==
    \E r \in Texts(RegionChars, MaxRegionLen), s \in BOOLEAN :
        Start([region |-> r, input |-> SampleFile, verbose |-> FALSE, simple |-> s])

SpecRegion == InitRegion /\ [][Next]_vars

\* field counts of the data lines and of the comment lines of the sniffing runs
SniffWidths == {3, 10, 11, 13, 18}

SniffLines(w) ==
    {BlankLine}
    \cup {CommentLine(nf) : nf \in {1, 11, w}}
    \cup {DataLine(<<"c">>, 1, 2, "m", "+", 10, FVal(50), 8, 2, 1, w),
          DataLine(<<"c">>, 2, 3, "m", "-", 4, NA, 1, 3, 0, w)}

\* runs that vary the lines of the file
InitLoad ==
    \E w \in SniffWidths, readable \in BOOLEAN, v \in BOOLEAN :
        \E lines \in SeqsUpTo(SniffLines(w), MaxLines) :
            Start([region |-> <<"c", ":", "2", "-", "3">>,
                   input |-> [readable |-> readable, lines |-> lines],
                   verbose |-> v, simple |-> TRUE])

SpecLoad == InitLoad /\ [][Next]_vars

AggWidths == {10, 11, 12, 13, 14}

AggRegions == {<<"c", ":", "2", "-", "3">>, <<"d", ":", "1", "-", "9">>}

\* runs that vary the data rows, the column count and the region
InitAgg ==
    \E w \in AggWidths, r \in AggRegions :
        \E lines \in SeqsUpTo(DataLinesOf(w), MaxRows) :
            Start([region |-> r,
                   input |-> [readable |-> TRUE, lines |-> lines],
                   verbose |-> FALSE, simple |-> TRUE])

SpecAgg == InitAgg /\ [][Next]_vars

\* region arguments and files of the whole-run checks
MainRegions ==
    {<<"c", ":", "2", "-", "3">>, <<"d", ":", "1", "-", "9">>, <<"c", ":", "3", "-", "2">>,
     <<"c", ":", "2">>, <<"c", "2", "-", "3">>, <<"c", ":", "x", "-", "3">>}

MainWidths == {3, 14}

\* runs that vary the region, the file and both output flags
Init ==
    \E r \in MainRegions, w \in MainWidths, readable \in BOOLEAN,
       v \in BOOLEAN, s \in BOOLEAN :
        \E lines \in SeqsUpTo(SniffLines(w), MaxLines) :
            Start([region |-> r,
                   input |-> [readable |-> readable, lines |-> lines],
                   verbose |-> v, simple |-> s])

Spec == Init /\ [][Next]_vars

(***************************************************************************)
(* Properties of parse_region (SpecRegion).                                *)
(***************************************************************************)
\* positions of the character ch in the text t
Positions(t, ch) == {i \in 1..Len(t) : t[i] = ch}

\* a non-empty run of decimal digits
IsNumeral(t) == t # <<>> /\ \A i \in 1..Len(t) : t[i] \in {Digits[k] : k \in 1..10}

\* the text after the only colon of t
AfterColon(t) == SubSeq(t, (CHOOSE i \in Positions(t, ":") : TRUE) + 1, Len(t))

\* the text before the only colon of t
BeforeColon(t) == SubSeq(t, 1, (CHOOSE i \in Positions(t, ":") : TRUE) - 1)

\* the text before, and after, the only dash of t
BeforeDash(t) == SubSeq(t, 1, (CHOOSE i \in Positions(t, "-") : TRUE) - 1)
AfterDash(t) == SubSeq(t, (CHOOSE i \in Positions(t, "-") : TRUE) + 1, Len(t))

\* an integer as int() reads it from these characters: a numeral, or a plus sign
\* and a numeral (a minus sign never survives the split on the dash)
IsIntegerText(t) == IsNumeral(t) \/ (t # <<>> /\ t[1] = "+" /\ IsNumeral(Tail(t)))

\* "<chrom>:<s>-<e>": one colon, one dash after it, an integer on each side of the dash
ValidRegion(t) ==
    /\ Cardinality(Positions(t, ":")) = 1
    /\ Cardinality(Positions(AfterColon(t), "-")) = 1
    /\ IsIntegerText(BeforeDash(AfterColon(t)))
    /\ IsIntegerText(AfterDash(AfterColon(t)))

\* the numeral of an integer text, without its plus sign
Numeral(t) == IF t[1] = "+" THEN Tail(t) ELSE t

RECURSIVE Canonical(_)
\* a numeral without its leading zeros
Canonical(t) == IF Len(t) > 1 /\ t[1] = "0" THEN Canonical(Tail(t)) ELSE t

RECURSIVE Pow10(_)
Pow10(k) == IF k = 0 THEN 1 ELSE 10 * Pow10(k - 1)

\* the number a numeral writes: the sum of its digits times their powers of ten
NumeralValue(t) ==
    Sum([i \in 1..Len(t) |->
            ((CHOOSE k \in 1..10 : Digits[k] = t[i]) - 1) * Pow10(Len(t) - i)])

\* the region label a finished calculation carries
LabelOf(r) == IF "error" \in DOMAIN r THEN r.error.arg ELSE r.region

\* C4: for a valid region argument "<chrom>:<s>-<e>", parse_region returns
\* (chrom, s - 1, e), and the label the calculation builds from that triple reads
\* chrom, s and e again (s and e as plain decimal numbers)
C4_ParseRoundTrip ==
    (pc # "parse" /\ ValidRegion(args.region)) =>
        LET s_text == Numeral(BeforeDash(AfterColon(args.region)))
            e_text == Numeral(AfterDash(AfterColon(args.region)))
        IN /\ region # None
           /\ region.chrom = BeforeColon(args.region)
           /\ region.start = NumeralValue(s_text) - 1
           /\ region.end = NumeralValue(e_text)
           /\ (results # None
               /\ ("error" \notin DOMAIN results
                   \/ results.error.fmt = "No 5mC data found in region {}")) =>
                  LabelOf(results) = BeforeColon(args.region) \o <<":">>
                                     \o Canonical(s_text) \o <<"-">> \o Canonical(e_text)

\* C4 witness: "c:1-10" was parsed to (c, 0, 10) and the report is labelled "c:1-10"
C4_Witness ==
    /\ pc = "done"
    /\ args.region = <<"c", ":", "1", "-", "1", "0">>
    /\ region # None
    /\ region.start = 0
    /\ region.end = 10
    /\ results # None
    /\ "error" \notin DOMAIN results
    /\ results.region = args.region

\* C5: a region argument that is not valid never yields a triple: main ends
\* with the invalid-region error, whose message carries the argument
C5_MalformedRejected ==
    (pc # "parse" /\ ~ValidRegion(args.region)) =>
        /\ region = None
        /\ pc = "done"
        /\ stderr = <<[kind |-> "error",
                       text |-> "Error: Invalid region format: {}. Use 'chr:start-end'",
                       s |-> args.region, n |-> 0]>>

\* C5 witness: "c:-1-1" (a negative start makes three dash-separated pieces)
\* was rejected with the invalid-region error
C5_Witness ==
    /\ pc = "done"
    /\ args.region = <<"c", ":", "-", "1", "-", "1">>
    /\ region = None
    /\ Len(stderr) = 1
    /\ stderr[1].s = args.region

(***************************************************************************)
(* Properties of read_bedmethyl (SpecLoad).                                *)
(***************************************************************************)
AllColumns == base_columns \o optional_columns

\* the first line of the file that is neither empty nor a comment
FirstDataLine(lines) ==
    lines[CHOOSE i \in 1..Len(lines) :
              /\ lines[i].kind = "data"
              /\ \A j \in 1..(i - 1) : lines[j].kind # "data"]

\* C6: whatever blank and comment lines come first, the columns of the table are
\* the first N of the 18 names, N the field count of the first data line (stated
\* here for the files whose data lines have the documented 10 to 18 fields)
C6_SniffFirstDataLine ==
    (/\ df # None
     /\ \E i \in 1..Len(args.input.lines) : args.input.lines[i].kind = "data"
     /\ Len(FirstDataLine(args.input.lines).fields) \in 10..18) =>
        df.columns = SubSeq(AllColumns, 1,
                            Len(FirstDataLine(args.input.lines).fields))

(***************************************************************************)
(* Properties of calculate_region_methylation (SpecAgg: every line of the  *)
(* file is a data line of the same width).                                 *)
(***************************************************************************)
\* the line is a 5mC record of the queried chromosome inside [start, end)
Qualifies(line) ==
    /\ line.fields[4].s = <<"m">>
    /\ line.fields[1].s = region.chrom
    /\ line.fields[2].n >= region.start
    /\ line.fields[3].n <= region.end

QualifyingLines == SelectSeq(args.input.lines, Qualifies)

\* the sum of field k over the qualifying lines
FieldSum(k) == Sum([i \in 1..Len(QualifyingLines) |-> QualifyingLines[i].fields[k].n])

\* the totals of a result: position, read and strand counts
TotalKeys ==
    {"total_positions", "total_modified_reads", "total_unmodified_reads", "total_reads",
     "positions_plus_strand", "positions_minus_strand", "total_other_modifications"}

TotalsOf(r) == [k \in (DOMAIN r) \cap TotalKeys |-> r[k]]

\* the totals the program computes for the query on the table with these rows
TotalsOn(rows) ==
    TotalsOf(calculate_region_methylation([df EXCEPT !.rows = rows],
                                          region.chrom, region.start, region.end).value)

\* the table row of a line
RowOf(line) == read_bedmethyl([readable |-> TRUE, lines |-> <<line>>]).rows[1]

\* the sequence without its i-th element
Without(seq, i) == SubSeq(seq, 1, i - 1) \o SubSeq(seq, i + 1, Len(seq))

\* C1: the totals depend only on the qualifying records: adding a record that does
\* not qualify (other mod_type, other chromosome, wholly or partly outside the
\* interval), or removing one, changes no total
C1_FilterCorrect ==
    results # None =>
        /\ \A line \in DataLinesOf(Len(df.columns)) :
               ~Qualifies(line) =>
                   TotalsOn(Append(df.rows, RowOf(line))) = TotalsOf(results)
        /\ \A i \in 1..Len(args.input.lines) :
               ~Qualifies(args.input.lines[i]) =>
                   TotalsOn(Without(df.rows, i)) = TotalsOf(results)

\* C1 witness: a report over one qualifying record, from a file that also holds a
\* 5mC record of the chromosome that lies partly outside the interval
C1_Witness ==
    /\ results # None
    /\ "error" \notin DOMAIN results
    /\ results.total_positions = 1
    /\ \E i \in 1..Len(args.input.lines) :
           /\ ~Qualifies(args.input.lines[i])
           /\ args.input.lines[i].fields[4].s = <<"m">>
           /\ args.input.lines[i].fields[1].s = region.chrom
           /\ args.input.lines[i].fields[3].n > region.start
           /\ args.input.lines[i].fields[2].n < region.end

\* C2: with n_modified and n_canonical columns and a non-empty filtered set, the
\* read totals are the sums of n_modified and n_canonical over the qualifying
\* records, whatever percent_modified and coverage say
C2_DirectCountsFirst ==
    (results # None /\ Len(df.columns) >= 13 /\ Len(QualifyingLines) > 0) =>
        /\ "error" \notin DOMAIN results
        /\ results.total_modified_reads = FieldSum(12)
        /\ results.total_unmodified_reads = FieldSum(13)
        /\ results.total_reads = FieldSum(12) + FieldSum(13)

\* C2 witness: scenario A, rows (8, 2) and (6, 4), where the percentages of the
\* rows would give other totals
C2_Witness ==
    /\ results # None
    /\ "error" \notin DOMAIN results
    /\ Len(QualifyingLines) = 2
    /\ results.total_modified_reads = 14
    /\ results.total_unmodified_reads = 6
    /\ results.total_reads = 20
    /\ results.overall_methylation_percent = 7000
    /\ \E i \in 1..2 : QualifyingLines[i].fields[11] = FVal(50)

\* C3: the overall percentage is within [0, 100] when total_reads > 0 and is 0.0
\* when total_reads = 0, for every value the file holds
C3_PercentInRange ==
    results # None =>
        /\ results.total_reads > 0 =>
               /\ results.overall_methylation_percent >= 0
               /\ results.overall_methylation_percent <= 10000
        /\ results.total_reads = 0 => results.overall_methylation_percent = 0

\* C7: with no qualifying record the result is the error variant that names the
\* region with its 1-based start, all counts zero, for every column count
C7_NoDataError ==
    (results # None /\ Len(QualifyingLines) = 0) =>
        results = [error |-> [fmt |-> "No 5mC data found in region {}",
                              arg |-> args.region],
                   total_positions |-> 0,
                   total_modified_reads |-> 0,
                   total_unmodified_reads |-> 0,
                   total_reads |-> 0,
                   overall_methylation_percent |-> 0]

\* C7 witness: scenario B on a ten-column file: two records, none qualifies
C7_Witness ==
    /\ results # None
    /\ "error" \in DOMAIN results
    /\ results.error.arg = <<"c", ":", "2", "-", "3">>
    /\ region.start = 1
    /\ Len(args.input.lines) = 2
    /\ Len(df.columns) = 10
    /\ Len(QualifyingLines) = 0

\* round(percent / 100 * coverage) of a line, half to even; 0 for a missing percent
Estimate(line) ==
    IF line.fields[11].t = "nan" THEN 0
    ELSE LET x == line.fields[11].n * line.fields[10].n
         IN IF x % 100 = 50
            THEN (IF (x \div 100) % 2 = 0 THEN x \div 100 ELSE (x \div 100) + 1)
            ELSE (x + 50) \div 100

\* C9: with a non-empty filtered set the columns alone choose the strategy: 13 or
\* more columns give the direct counts, 11 or 12 the percentage estimate, 10 the
\* insufficient-columns error with the filtered row count
C9_StrategyByColumns ==
    (results # None /\ Len(QualifyingLines) > 0) =>
        IF Len(df.columns) >= 13
        THEN /\ "error" \notin DOMAIN results
             /\ results.total_modified_reads = FieldSum(12)
             /\ results.total_reads = FieldSum(12) + FieldSum(13)
        ELSE IF Len(df.columns) \in {11, 12}
        THEN /\ "error" \notin DOMAIN results
             /\ results.total_modified_reads =
                    Sum([i \in 1..Len(QualifyingLines) |-> Estimate(QualifyingLines[i])])
             /\ results.total_reads = FieldSum(10)
        ELSE results = [error |-> [fmt |-> "Insufficient data columns to calculate methylation",
                                   arg |-> <<>>],
                        total_positions |-> Len(QualifyingLines),
                        total_modified_reads |-> 0,
                        total_unmodified_reads |-> 0,
                        total_reads |-> 0,
                        overall_methylation_percent |-> 0]

\* C9 witness: a twelve-column table (n_modified without n_canonical) whose row of
\* 50 percent of 10 reads is estimated as 5 modified reads, not counted as 8
C9_Witness ==
    /\ results # None
    /\ Len(df.columns) = 12
    /\ "error" \notin DOMAIN results
    /\ Len(QualifyingLines) = 1
    /\ QualifyingLines[1].fields[12].n = 8
    /\ results.total_modified_reads = 5
    /\ results.total_reads = 10

\* C10: in every result without error total_reads is the sum of the modified and
\* the unmodified reads, rows with a missing percent_modified included
C10_ReadsAddUp ==
    (results # None /\ "error" \notin DOMAIN results) =>
        results.total_reads = results.total_modified_reads + results.total_unmodified_reads

(***************************************************************************)
(* Properties of a whole run of main (Spec).                               *)
(***************************************************************************)
ReportLines == SelectSeq(stdout, LAMBDA l : l.kind = "report")

\* the report lines a result without error gives in the mode of the run
CompleteReport ==
    IF args.simple THEN SimpleReport(results) ELSE FullReport(results, args.verbose)

\* C8: a finished run has either the complete report on standard output and exit
\* code 0, or an error message on standard error and no report line; a failure of
\* region parsing or of table loading gives exit code 1 before any aggregation,
\* and the file is never opened before the region is parsed
C8_ReportOrError ==
    /\ opened > 0 => region # None
    /\ pc # "done" => (stderr = <<>> /\ ReportLines = <<>> /\ exit_code = -1)
    /\ pc = "done" =>
        /\ \/ /\ exit_code = 0
              /\ stderr = <<>>
              /\ results # None
              /\ "error" \notin DOMAIN results
              /\ ReportLines = CompleteReport
              /\ Len(ReportLines) >= 6
           \/ /\ Len(stderr) = 1
              /\ stderr[1].kind = "error"
              /\ ReportLines = <<>>
              /\ exit_code \in {0, 1}
        /\ region = None => (exit_code = 1 /\ opened = 0 /\ df = None /\ results = None)
        /\ (region # None /\ df = None) => (exit_code = 1 /\ results = None)

\* C8 witness: a verbose run whose file could not be loaded: the loading line is
\* on standard output, the error on standard error, no report line, exit code 1
C8_Witness ==
    /\ pc = "done"
    /\ args.verbose
    /\ region # None
    /\ df = None
    /\ opened > 0
    /\ exit_code = 1
    /\ Len(stdout) = 1
    /\ Len(stderr) = 1

====
